---- MODULE Spec2Model ----
(***************************************************************************)
(* Model of tankwar/function.js: the extra-enemy AI controller             *)
(* (spawnMoreEnemies / updateAllAI / updateOne), the three patches         *)
(* (increaseBulletSpeed, enableBouncingBullets, enableDeadlyWalls) and the *)
(* frame-time wrapper (wrapFrameWithSpeed).                                *)
(*                                                                         *)
(* Fixed-point scales.  Time is counted in tenths of a second (dt = 3 is   *)
(* 0.3 s), angles in hundredths of a radian (the steering terms in units   *)
(* of 0.005 rad), feeler distances in pixels,                              *)
(* tank positions in twentieths of the canvas side; the canvas is 80 px    *)
(* wide and high, so one position unit is 4 px.  JavaScript numbers are    *)
(* IEEE doubles; the model computes with exact integers on these grids.    *)
(***************************************************************************)
EXTENDS Integers, Sequences, FiniteSets, TLC

VARIABLES
  ctl,      \* the spawnMoreEnemies call: its arguments, and phase "fresh" before it,
            \* "ready" after it returned, "threw" if it threw
  enemies,  \* the enemies array returned to the caller: a sequence of tank ids
  tank,     \* the Tank objects ever constructed: id -> [x, y, color]
  state,    \* the `state` Map of the closure: tank id -> AI record (getState)
  dt,       \* argument of the updateAllAI call that produced this state; 0 after any other step
  obs,      \* per tank, what the last updateAllAI call did with it (calls made, answers received)
  moving,   \* per tank: every updateMovement call so far displaced it by at least 8*dt pixels
  patch,    \* enableBouncingBullets: [on, maxBounces], the patch installed on Bullet.update
  bullet,   \* one Bullet: [x, y, vx, vy, life, alive, bounces]; bounces = -1 is `_bounces` unset
  refl,     \* number of updates so far in which the bullet's velocity was reflected
  player,   \* the player's Tank: [x, y]
  deadly,   \* the maze entries with m.deadly = true: a set of 0-based indices
  hook,     \* the patches on Tank: [fire, move, calls]; fire is the sequence of the
            \* factors of the wrappers around Tank.prototype.fire, move the number of
            \* wrappers around Tank.prototype.updateMovement, calls the installer calls made
  call,     \* the last call of a patched method or of enableDeadlyWalls, as observed
  raf       \* the closure of wrapFrameWithSpeed: [on, m, last], with the calls of
            \* the wrapped function: n so far, and of the last one the timestamp t,
            \* the frameFn calls ran and the timestamp passed to frameFn, scaled

aiVars == <<ctl, enemies, tank, state, dt, obs, moving>>
bulletVars == <<patch, bullet, refl>>
extVars == <<player, deadly, hook, call, raf>>
vars == <<ctl, enemies, tank, state, dt, obs, moving, patch, bullet, refl,
          player, deadly, hook, call, raf>>

----------------------------------------------------------------------------
(* Program constants, in the model's units. *)

HoldFireMin   == 9     \* 0.9 s
HoldFireSpan  == 7     \* 0.7 s
FireCone      == 15    \* 0.15 rad
FwdGo         == 24    \* px
FwdNear       == 50    \* px
StuckSpeed    == 8     \* px per second
ProgressLimit == 6     \* 0.6 s
UnstickTime   == 5     \* 0.5 s
SteerMax      == 80    \* 0.8 rad
AvoidMax      == 140   \* 0.7 rad, in units of 0.005 rad
PanicTurn     == 140   \* 0.7 rad, in units of 0.005 rad
PanicFwd      == 40    \* px
SteerDead     == 12    \* 0.06 rad, in units of 0.005 rad
ManeuverFwd   == 30    \* px
ManeuverBack  == 20    \* px
NumSpawns     == 8
CanvasSide    == 20    \* canvas.clientWidth = canvas.clientHeight = 80 px = 20 units

(* Bounds of the model. *)
RandDen  == 7   \* Math.random() yields k / RandDen, k in 0 .. RandDen-1
MaxDrift == 1   \* tanks stay within MaxDrift units to the right of a spawn point
MaxCount == 9   \* largest count passed to spawnMoreEnemies
MaxLife == 12   \* a bullet's life when fired, in tenths of a second
MaxBouncesArg == 3   \* largest maxBounces passed to enableBouncingBullets
MaxPatchCalls == 3   \* calls of increaseBulletSpeed and enableDeadlyWalls together
MaxTime == 4         \* largest timestamp passed to a wrapped frame callback, in ms
MaxFrames == 3       \* calls of one wrapped frame callback

Abs(v) == IF v < 0 THEN -v ELSE v
Min(a, b) == IF a < b THEN a ELSE b
Max(a, b) == IF a > b THEN a ELSE b

(* Line 280. *)
clamp(v, a, b) == Max(a, Min(b, v))
Range(s) == {s[i] : i \in DOMAIN s}

----------------------------------------------------------------------------
(* spawnMoreEnemies: the spawn table. *)

Pt(px, py) == [x |-> px, y |-> py]

spawns ==
  << Pt((85 * CanvasSide) \div 100, (15 * CanvasSide) \div 100),
     Pt((85 * CanvasSide) \div 100, (85 * CanvasSide) \div 100),
     Pt((15 * CanvasSide) \div 100, (15 * CanvasSide) \div 100),
     Pt((15 * CanvasSide) \div 100, (85 * CanvasSide) \div 100),
     Pt((50 * CanvasSide) \div 100, (15 * CanvasSide) \div 100),
     Pt((85 * CanvasSide) \div 100, (50 * CanvasSide) \div 100),
     Pt((50 * CanvasSide) \div 100, (85 * CanvasSide) \div 100),
     Pt((15 * CanvasSide) \div 100, (50 * CanvasSide) \div 100) >>

(* Bullet.update not patched, no bullet in flight. *)
NoBullet ==
  /\ patch = [on |-> FALSE, maxBounces |-> 0]
  /\ bullet = [x |-> 0, y |-> 0, vx |-> 0, vy |-> 0, life |-> 0,
               alive |-> FALSE, bounces |-> -1]
  /\ refl = 0

(* The record of `call` when no patched method has been called yet. *)
noCall ==
  [method |-> "none", orig |-> 0, killed |-> 0, base |-> <<0, 0>>,
   given |-> {}, at |-> <<0, 0>>]

(* Nothing installed on Tank, no wall flagged deadly, no frame wrapper     *)
(* made; the player's tank stands clear of the walls.                      *)
NoPatch ==
  /\ player = Pt(10, 5)
  /\ deadly = {}
  /\ hook = [fire |-> <<>>, move |-> 0, calls |-> 0]
  /\ call = noCall
  /\ raf = [on |-> FALSE, m |-> 0, last |-> -1, n |-> 0, ran |-> 0,
            t |-> 0, scaled |-> 0]

(* retrySpawn giving up after three retries. *)
RECURSIVE retrySpawn_Short(_, _, _, _)
retrySpawn_Short(s, si, tries, occ) ==
  IF s \notin occ /\ tries < 3
    THEN retrySpawn_Short(si % NumSpawns, si + 1, tries + 1, occ)
    ELSE [s |-> s, si |-> si]

(* Lines 182-189: the spawn point for one enemy.  `si` counts the table    *)
(* reads made so far, `s` is the current candidate (0-based index),        *)
(* `tries` the retries made; occ is the set of indices canOccupy accepts.  *)
RECURSIVE retrySpawn(_, _, _, _)
retrySpawn(s, si, tries, occ) ==
  IF s \notin occ /\ tries < NumSpawns
    THEN retrySpawn(si % NumSpawns, si + 1, tries + 1, occ)
    ELSE [s |-> s, si |-> si]

pickSpawn(si, hasPred, occ) ==
  IF hasPred THEN retrySpawn(si % NumSpawns, si + 1, 0, occ)
             ELSE [s |-> si % NumSpawns, si |-> si + 1]

(* Lines 180-194: the construction loop; returns the tanks pushed. *)
RECURSIVE spawnLoop(_, _, _, _, _, _, _)
spawnLoop(i, count, si, hasPred, occ, nc, acc) ==
  IF i < count
    THEN LET p == pickSpawn(si, hasPred, occ)
             t == [x |-> spawns[p.s + 1].x, y |-> spawns[p.s + 1].y,
                   color |-> i % nc, spawn |-> p.s]
         IN  spawnLoop(i + 1, count, p.si, hasPred, occ, nc, Append(acc, t))
    ELSE acc

(* Line 200: the record getState creates for a tank it has not seen. *)
newState(t) ==
  [hasSight |-> FALSE, holdFire |-> 0, unstick |-> 0, unstickDir |-> 0,
   progress |-> 0, lastX |-> t.x, lastY |-> t.y]

getState(e) == IF e \in DOMAIN state THEN state[e] ELSE newState(tank[e])

(* The calls of one updateOne on its tank and on the navigation: nav and   *)
(* asked count the ensureNav and navWaypoint calls, moves the              *)
(* updateMovement calls, mv is the last one's flags.                       *)
noMove == [maneuver |-> FALSE, left |-> FALSE, right |-> FALSE,
           fwd |-> FALSE, back |-> FALSE]

noObs ==
  [fired |-> 0, canFire |-> FALSE, diff |-> 0, started |-> FALSE,
   nav |-> 0, asked |-> 0, wp |-> FALSE, wpDiff |-> 0, target |-> "none", turn |-> 0,
   base |-> 0, avoid |-> 0, panic |-> 0, steer |-> 0,
   leftLess |-> FALSE, fwdFeel |-> 0, moves |-> 0, mv |-> noMove]

(* spawnMoreEnemies(count, TankClass, env, color): lines 158-258.          *)
(* invocable: TankClass can be constructed; hasPred: env.canOccupy is a    *)
(* function, accepting the spawn indices in occ; nc: number of colours.    *)
callOf(phase, count, invocable, hasPred, occ, nc) ==
  [phase |-> phase, count |-> count, invocable |-> invocable,
   hasPred |-> hasPred, occ |-> occ, nc |-> nc]

spawnMoreEnemies(count, invocable, hasPred, occ, nc) ==
  /\ ctl.phase = "fresh"
  /\ IF count >= 1 /\ ~invocable
       THEN \* `new TankClass(...)` throws a TypeError in the first iteration
            /\ ctl' = callOf("threw", count, invocable, hasPred, occ, nc)
            /\ UNCHANGED <<enemies, tank>>
       ELSE LET made == spawnLoop(0, count, 0, hasPred, occ, nc, <<>>)
            IN  /\ ctl' = callOf("ready", count, invocable, hasPred, occ, nc)
                /\ tank' = made
                /\ enemies' = [i \in 1 .. Len(made) |-> i]
  /\ state' = <<>>
  /\ dt' = 0
  /\ obs' = [e \in DOMAIN tank' |-> noObs]
  /\ moving' = [e \in DOMAIN tank' |-> TRUE]
  /\ UNCHANGED bulletVars
  /\ UNCHANGED extVars

(* The state right after spawnMoreEnemies(n, Tank, env) returned, with the *)
(* default four colours and a canOccupy that accepts every point.          *)
Constructed(n) ==
  LET made == spawnLoop(0, n, 0, TRUE, 0 .. NumSpawns - 1, 4, <<>>)
  IN  /\ ctl = callOf("ready", n, TRUE, TRUE, 0 .. NumSpawns - 1, 4)
      /\ tank = made
      /\ enemies = [i \in 1 .. n |-> i]
      /\ state = <<>>
      /\ dt = 0
      /\ obs = [e \in 1 .. n |-> noObs]
      /\ moving = [e \in 1 .. n |-> TRUE]
      /\ NoBullet
      /\ NoPatch

----------------------------------------------------------------------------
(* updateOne(dt, enemy): lines 204-251, piece by piece. *)

(* holdFireEdge without the `!st.hasSight` test: resets on every tick with sight. *)
holdFireEdge_NoEdge(st, sight, k) ==
  IF sight THEN HoldFireMin + (HoldFireSpan * k) \div RandDen ELSE st.holdFire

(* Line 209: the hold-fire timer after the sight edge test; k / RandDen is *)
(* the value Math.random() returns when it is called.                      *)
holdFireEdge(st, sight, k) ==
  IF sight /\ ~st.hasSight
    THEN HoldFireMin + (HoldFireSpan * k) \div RandDen
    ELSE st.holdFire

(* holdFireTick without the `st.holdFire > 0` test. *)
holdFireTick_Always(h, d) == h - d

(* Line 211. *)
holdFireTick(h, d) == IF h > 0 THEN h - d ELSE h

(* Lines 233-234: `moved < 8 * dt`, moved = Math.hypot(dx, dy).  dx, dy    *)
(* are in units of 4 px and d in tenths of a second, so the test is        *)
(* 4 * sqrt(dx^2 + dy^2) < 8 * d / 10; both sides are squared.             *)
movedLess(dx, dy, d) ==
  (40 * 40) * (dx * dx + dy * dy) < (StuckSpeed * d) * (StuckSpeed * d)

(* Line 230. *)
goForwardOf(fwdFeel) == fwdFeel > FwdGo

(* Line 234: st.progress after the stuck detector. *)
stuckDetect(progress, goForward, slow, fwdFeel, d) ==
  IF goForward /\ slow /\ fwdFeel < FwdNear THEN progress + d ELSE 0

(* beginUnstick without `st.progress = 0`. *)
beginUnstick_KeepProgress(st, leftFeel, rightFeel) ==
  IF st.progress > ProgressLimit
    THEN [st EXCEPT !.unstick = UnstickTime,
                    !.unstickDir = IF leftFeel < rightFeel THEN 1 ELSE -1]
    ELSE st

(* beginUnstick with `<=` for `<` in the choice of the direction. *)
beginUnstick_LeqDir(st, leftFeel, rightFeel) ==
  IF st.progress > ProgressLimit
    THEN [st EXCEPT !.unstick = UnstickTime,
                    !.unstickDir = IF leftFeel <= rightFeel THEN 1 ELSE -1,
                    !.progress = 0]
    ELSE st

(* Lines 235-239: starting an unstick maneuver.  Takes the record with the *)
(* detector's progress already stored.                                     *)
beginUnstick(st, leftFeel, rightFeel) ==
  IF st.progress > ProgressLimit
    THEN [st EXCEPT !.unstick = UnstickTime,
                    !.unstickDir = IF leftFeel < rightFeel THEN 1 ELSE -1,
                    !.progress = 0]
    ELSE st

(* Lines 240-241: the maneuver countdown. *)
unstickTick(u, d) == IF u > 0 THEN u - d ELSE u

(* fireDecision without the `st.holdFire <= 0` test. *)
fireDecision_NoHold(sight, holdFire, canFire, diff) ==
  IF sight /\ canFire /\ Abs(diff) < FireCone THEN 1 ELSE 0

(* fireDecision without Math.abs. *)
fireDecision_NoAbs(sight, holdFire, canFire, diff) ==
  IF sight /\ holdFire <= 0 /\ canFire /\ diff < FireCone THEN 1 ELSE 0

(* Lines 248-250: the number of fire() calls. *)
fireDecision(sight, holdFire, canFire, diff) ==
  IF sight /\ holdFire <= 0 /\ canFire /\ Abs(diff) < FireCone THEN 1 ELSE 0

(* Lines 217-222: what the tank steers at.  wp: navWaypoint returned a     *)
(* waypoint.                                                               *)
steerTarget_Player(sight, wp) == "player"

steerTarget(sight, wp) == IF ~sight /\ wp THEN "waypoint" ELSE "player"

(* Lines 218-220: ensureNav(dt) and navWaypoint are called without sight. *)
navCalls(sight) == IF sight THEN 0 ELSE 1

(* Lines 223-226.  a is angDiff(enemy.angle, steerTargetAng) in hundredths *)
(* of a radian; the three terms and their sum are in units of 0.005 rad,   *)
(* in which (rightFeel - leftFeel) * 0.005 is rightFeel - leftFeel.        *)
baseSteer_Unclamped(a) == 2 * a

baseSteer(a) == 2 * clamp(a, -SteerMax, SteerMax)

avoidSteer(leftFeel, rightFeel) == clamp(rightFeel - leftFeel, -AvoidMax, AvoidMax)

panicSteer(leftFeel, rightFeel, fwdFeel) ==
  IF fwdFeel < PanicFwd
    THEN IF leftFeel < rightFeel THEN PanicTurn ELSE -PanicTurn
    ELSE 0

(* Lines 228-229. *)
turnLeftOf(steer) == steer < -SteerDead
turnRightOf(steer) == steer > SteerDead

(* movementCall with the steering flags passed during a maneuver too. *)
movementCall_NoOverride(u, dir, steer, fwdFeel) ==
  [maneuver |-> u > 0, left |-> turnLeftOf(steer), right |-> turnRightOf(steer),
   fwd |-> fwdFeel > FwdGo, back |-> FALSE]

(* Lines 240-245: the flags of the one updateMovement call; u is           *)
(* st.unstick after lines 235-239, before the decrement of line 241.       *)
movementCall(u, dir, steer, fwdFeel) ==
  IF u > 0
    THEN [maneuver |-> TRUE, left |-> dir < 0, right |-> dir > 0,
          fwd |-> fwdFeel > ManeuverFwd, back |-> fwdFeel <= ManeuverBack]
    ELSE [maneuver |-> FALSE, left |-> turnLeftOf(steer), right |-> turnRightOf(steer),
          fwd |-> fwdFeel > FwdGo, back |-> FALSE]

(* Line 246: the position sample, taken from the tank after updateMovement. *)
samplePosition(st, before, after) ==
  [st EXCEPT !.lastX = after.x, !.lastY = after.y]

(* enemy.updateMovement(...): the Tank method of main.js.  Its effect on   *)
(* the position is the displacement mv the game produces for the call.     *)
updateMovement(t, mv) == [t EXCEPT !.x = t.x + mv[1], !.y = t.y + mv[2]]

(* One updateOne call: st is getState(enemy), t the tank, d the dt, in the *)
(* answers of the collaborators (hasLineOfSight, angDiff, distanceToWall,  *)
(* canFire, Math.random) and the displacement of updateMovement.           *)
updateOne(st, t, d, in) ==
  LET st1 == [st EXCEPT !.holdFire = holdFireTick(holdFireEdge(st, in.sight, in.rnd), d),
                        !.hasSight = in.sight]
      slow == movedLess(t.x - st.lastX, t.y - st.lastY, d)
      st2 == [st1 EXCEPT !.progress =
                stuckDetect(st.progress, goForwardOf(in.fwd), slow, in.fwd, d)]
      st3 == beginUnstick(st2, in.left, in.right)
      st4 == [st3 EXCEPT !.unstick = unstickTick(st3.unstick, d)]
      t1  == updateMovement(t, in.move)
      st5 == samplePosition(st4, t, t1)
      target == steerTarget(in.sight, in.wp)
      turn  == IF target = "waypoint" THEN in.wpDiff ELSE in.diff
      base  == baseSteer(turn)
      avoid == avoidSteer(in.left, in.right)
      panic == panicSteer(in.left, in.right, in.fwd)
      steer == base + avoid + panic
  IN  [st   |-> st5,
       tank |-> t1,
       obs  |-> [fired   |-> fireDecision(in.sight, st5.holdFire, in.canFire, in.diff),
                 canFire |-> in.canFire,
                 diff    |-> in.diff,
                 started |-> st2.progress > ProgressLimit,
                 nav     |-> navCalls(in.sight),
                 asked   |-> navCalls(in.sight),
                 wp      |-> in.wp /\ ~in.sight,
                 wpDiff  |-> IF in.wp /\ ~in.sight THEN in.wpDiff ELSE 0,
                 target  |-> target,
                 turn    |-> turn,
                 base    |-> base,
                 avoid   |-> avoid,
                 panic   |-> panic,
                 steer   |-> steer,
                 leftLess |-> in.left < in.right,
                 fwdFeel |-> in.fwd,
                 moves   |-> 1,
                 mv      |-> movementCall(st3.unstick, st3.unstickDir, steer, in.fwd)],
       far  |-> ~movedLess(in.move[1], in.move[2], d)]

(* updateAllAI iterating over every tank constructed, not over `enemies`. *)
Managed_AllTanks == DOMAIN tank

(* Line 254: the tanks updateAllAI iterates over. *)
Managed == Range(enemies)

(* Math.random() is called only on a sight edge (line 209); on the other   *)
(* ticks no random number is drawn, written as rnd = 0.                    *)
Called(st, in) == (in.sight /\ ~st.hasSight) \/ in.rnd = 0

InBox(p) ==
  \E i \in 1 .. NumSpawns :
    p.y = spawns[i].y /\ p.x - spawns[i].x \in 0 .. MaxDrift

(* updateAllAI(dt): lines 253-255.  ins gives, per managed tank, the       *)
(* collaborators' answers during its updateOne.  The tanks of the array    *)
(* are distinct objects, so the calls do not read each other's writes.     *)
updateAllAI(d, ins) ==
  LET r == [e \in Managed |-> updateOne(getState(e), tank[e], d, ins[e])]
  IN  /\ ctl.phase = "ready"
      /\ \A e \in Managed : Called(getState(e), ins[e])
      /\ \A e \in Managed : InBox(r[e].tank)
      /\ state' = [e \in DOMAIN state \cup Managed |->
                     IF e \in Managed THEN r[e].st ELSE state[e]]
      /\ tank' = [e \in DOMAIN tank |-> IF e \in Managed THEN r[e].tank ELSE tank[e]]
      /\ obs' = [e \in DOMAIN tank |-> IF e \in Managed THEN r[e].obs ELSE noObs]
      /\ moving' = [e \in DOMAIN tank |->
                      IF e \in Managed THEN moving[e] /\ r[e].far ELSE moving[e]]
      /\ dt' = d
      /\ UNCHANGED <<ctl, enemies, patch, bullet, refl>>
      /\ UNCHANGED extVars

(* The game respawns a killed extra enemy on a corner of the arena         *)
(* (examples.md, onTankKilled and the overlay's hit test): the tank's      *)
(* position is written from outside the controller.                        *)
Corners == 1 .. 4

Relocate(e, c) ==
  /\ ctl.phase = "ready"
  /\ e \in Managed
  /\ tank' = [tank EXCEPT ![e].x = spawns[c].x, ![e].y = spawns[c].y]
  /\ tank' # tank
  /\ dt' = 0
  /\ obs' = [x \in DOMAIN tank |-> noObs]
  /\ UNCHANGED <<ctl, enemies, state, moving, patch, bullet, refl>>
  /\ UNCHANGED extVars

(* The caller removes a destroyed tank from the enemies array it was       *)
(* handed (line 257); updateAllAI iterates what is left (line 254).        *)
RemoveEnemy(i) ==
  /\ ctl.phase = "ready"
  /\ i \in DOMAIN enemies
  /\ enemies' = [j \in 1 .. Len(enemies) - 1 |->
                   IF j < i THEN enemies[j] ELSE enemies[j + 1]]
  /\ dt' = 0
  /\ obs' = [x \in DOMAIN tank |-> noObs]
  /\ UNCHANGED <<ctl, tank, state, moving, patch, bullet, refl>>
  /\ UNCHANGED extVars

----------------------------------------------------------------------------
(* Input sets. *)

DtSet == {1, 3, 5}
RandSet == 0 .. RandDen - 1
Still == {<<0, 0>>}
Steps == {<<0, 0>>, <<1, 0>>, <<-1, 0>>}

Inputs(sights, canFires, diffs, lefts, rights, fwds, moves, rnds) ==
  [sight : sights, canFire : canFires, diff : diffs, left : lefts,
   right : rights, fwd : fwds, move : moves, rnd : rnds,
   wp : {FALSE}, wpDiff : {0}]

(* Engagement: sight, cool-down and facing error vary, in the open. *)
FireInputs ==
  Inputs(BOOLEAN, BOOLEAN, {-15, 0, 14, 15}, {180}, {180}, {160}, Still, RandSet)

(* Wedged against walls: the feelers and the displacement vary, no sight. *)
StuckInputs ==
  Inputs({FALSE}, {FALSE}, {0}, {60, 140}, {100}, {24, 25, 49, 50}, Steps, {0})

(* Steering: the facing error, from -pi to pi, and the feelers vary. *)
SteerInputs ==
  [sight : {TRUE}, canFire : {FALSE}, diff : {-314, -80, 0, 79, 314},
   left : {0, 90, 180}, right : {0, 90, 180}, fwd : {39, 40, 160},
   move : Still, rnd : {0}, wp : {FALSE}, wpDiff : {0}]

(* Navigation: sight comes and goes, navWaypoint returns a waypoint or     *)
(* null, the waypoint and the player lie in different directions.          *)
NavInputs ==
  [sight : BOOLEAN, canFire : {FALSE}, diff : {-40, 120},
   left : {100}, right : {100}, fwd : {160},
   move : Still, rnd : {0}, wp : BOOLEAN, wpDiff : {-100, 3}]

(* In and out of a maneuver: the side feelers less, equal and more clear   *)
(* on the left, the forward feeler around 20, 24 and 30 px.                *)
ManeuverInputs ==
  [sight : {FALSE}, canFire : {FALSE}, diff : {0},
   left : {60, 100, 140}, right : {100}, fwd : {20, 21, 24, 30, 31, 45},
   move : Still, rnd : {0}, wp : {FALSE}, wpDiff : {0}]

(* Two tanks side by side, in the open: sight and the displacement vary    *)
(* for each.                                                               *)
PairInputs ==
  [sight : BOOLEAN, canFire : {TRUE}, diff : {0},
   left : {60}, right : {100}, fwd : {160},
   move : {<<0, 0>>, <<1, 0>>}, rnd : {0}, wp : {FALSE}, wpDiff : {0}]

(* Both at once, coarser, standing still. *)
MixedInputs ==
  Inputs(BOOLEAN, {TRUE}, {0}, {60, 100}, {100}, {45, 160}, Still, {0, RandDen - 1})

Tick(D, I) ==
  \E d \in D : \E ins \in [Managed -> I] : updateAllAI(d, ins)

TickFire == Tick(DtSet, FireInputs)
TickStuck == Tick(DtSet, StuckInputs)
TickMixed == Tick({1, 3}, MixedInputs)
Respawn == \E e \in Managed : \E c \in Corners : Relocate(e, c)
Remove == \E i \in DOMAIN enemies : RemoveEnemy(i)

NextFire == TickFire
SpecFire == Constructed(1) /\ [][NextFire]_vars

NextStuck == TickStuck \/ Respawn
SpecStuck == Constructed(1) /\ [][NextStuck]_vars

(* The same frame time in every call, the tank left where its own moves  *)
(* put it.                                                                 *)
TickSteady == \E d \in DtSet : (dt = 0 \/ dt = d) /\ Tick({d}, StuckInputs)
NextSteady == TickSteady
SpecSteady == Constructed(1) /\ [][NextSteady]_vars

TickSteer == Tick({3}, SteerInputs)
NextSteer == TickSteer
SpecSteer == Constructed(1) /\ [][NextSteer]_vars

TickManeuver == Tick({1, 3}, ManeuverInputs)
NextManeuver == TickManeuver
SpecManeuver == Constructed(1) /\ [][NextManeuver]_vars

TickPair == Tick({5}, PairInputs)
NextPair == TickPair \/ Remove
SpecPair == Constructed(2) /\ [][NextPair]_vars

TickNav == Tick({1, 3}, NavInputs)
NextNav == TickNav
SpecNav == Constructed(1) /\ [][NextNav]_vars

(* Before the call: no controller, no tank. *)
Fresh ==
  /\ ctl = callOf("fresh", 0, TRUE, FALSE, {}, 1)
  /\ enemies = <<>>
  /\ tank = <<>>
  /\ state = <<>>
  /\ dt = 0
  /\ obs = <<>>
  /\ moving = <<>>
  /\ NoBullet
  /\ NoPatch

(* count may be zero or negative; canOccupy, when given, accepts any set   *)
(* of the eight spawn points.                                              *)
Spawn ==
  \E count \in -1 .. MaxCount, invocable \in BOOLEAN, hasPred \in BOOLEAN,
     occ \in SUBSET (0 .. NumSpawns - 1), nc \in 1 .. 2 :
    /\ hasPred \/ occ = {}
    /\ spawnMoreEnemies(count, invocable, hasPred, occ, nc)

NextSpawn == Spawn
SpecSpawn == Fresh /\ [][NextSpawn]_vars

Init == Constructed(1)
Next == TickMixed \/ Remove
Spec == Init /\ [][Next]_vars

----------------------------------------------------------------------------
(* enableBouncingBullets: lines 42-96.  Bullet positions are in the same   *)
(* units as tank positions, velocities in units per tenth of a second.     *)

(* The maze, as wallPx returns it: pixel rectangles [x, y, w, h]. *)
maze == << [x |-> 8, y |-> 8, w |-> 4, h |-> 4],
           [x |-> 14, y |-> 2, w |-> 1, h |-> 6] >>

(* env.segRectIntersects of main.js: whether the closed segment p0-p1      *)
(* meets the closed rectangle.  The parameters t in [0, 1] of the points   *)
(* inside the rectangle's x range and y range are intervals with rational  *)
(* ends <<numerator, denominator>>; the segment meets the rectangle when   *)
(* the intervals and [0, 1] have a common point.                           *)
leqFrac(a, b) == a[1] * b[2] <= b[1] * a[2]

axisRange(p, dd, lo, hi) ==
  IF dd > 0 THEN << <<lo - p, dd>>, <<hi - p, dd>> >>
  ELSE IF dd < 0 THEN << <<p - hi, -dd>>, <<p - lo, -dd>> >>
  ELSE IF lo <= p /\ p <= hi THEN << <<0, 1>>, <<1, 1>> >>
  ELSE << <<1, 1>>, <<0, 1>> >>

segRectIntersects(p0, p1, x, y, w, h) ==
  LET rx == axisRange(p0.x, p1.x - p0.x, x, x + w)
      ry == axisRange(p0.y, p1.y - p0.y, y, y + h)
      lows == {<<0, 1>>, rx[1], ry[1]}
      highs == {<<1, 1>>, rx[2], ry[2]}
  IN  \A l \in lows : \A u \in highs : leqFrac(l, u)

(* Lines 63-77: the bullet after the wall loop, with `bounced`. *)
wallBounce(b, nx, ny) ==
  LET hits == {i \in DOMAIN maze :
                 segRectIntersects(Pt(b.x, b.y), Pt(nx, ny),
                                   maze[i].x, maze[i].y, maze[i].w, maze[i].h)}
  IN  IF hits = {} THEN [b |-> b, bounced |-> FALSE]
      ELSE LET m == maze[CHOOSE i \in hits : \A j \in hits : i <= j]
               cx == clamp(b.x, m.x, m.x + m.w)
               cy == clamp(b.y, m.y, m.y + m.h)
               hitVertical == Abs(cx - b.x) > Abs(cy - b.y)
           IN  [b |-> IF hitVertical
                        THEN [b EXCEPT !.vx = -b.vx, !.bounces = b.bounces + 1]
                        ELSE [b EXCEPT !.vy = -b.vy, !.bounces = b.bounces + 1],
                bounced |-> TRUE]

(* Lines 80-84: reflection on the arena bounds, when no wall was hit. *)
boundsBounce(r, nx, ny) ==
  IF r.bounced THEN r
  ELSE LET offX == nx < 0 \/ nx > CanvasSide
           offY == ny < 0 \/ ny > CanvasSide
       IN  [b |-> [r.b EXCEPT !.vx = IF offX THEN -r.b.vx ELSE r.b.vx,
                              !.vy = IF offY THEN -r.b.vy ELSE r.b.vy],
            bounced |-> offX \/ offY]

(* Line 94. *)
stillAlive(life, bounces, maxBounces) == ~(life <= 0 \/ bounces >= maxBounces)

(* bulletUpdate without the `if (!this.alive) return` of line 52. *)
bulletUpdate_Undead(b, d, maxBounces) ==
  LET b0 == [b EXCEPT !.bounces = IF b.bounces < 0 THEN 0 ELSE b.bounces]
      nx == b0.x + b0.vx * d
      ny == b0.y + b0.vy * d
      r  == boundsBounce(wallBounce(b0, nx, ny), nx, ny)
      mx == IF r.bounced THEN b0.x + r.b.vx * d ELSE nx
      my == IF r.bounced THEN b0.y + r.b.vy * d ELSE ny
      life == b0.life - d
  IN  [b |-> [r.b EXCEPT !.x = mx, !.y = my, !.life = life,
                         !.alive = stillAlive(life, r.b.bounces, maxBounces)],
       bounced |-> r.bounced]

(* The patched Bullet.update(dt): lines 51-95. *)
bulletUpdate(b, d, maxBounces) ==
  IF ~b.alive THEN [b |-> b, bounced |-> FALSE]
  ELSE LET b0 == [b EXCEPT !.bounces = IF b.bounces < 0 THEN 0 ELSE b.bounces]
           nx == b0.x + b0.vx * d
           ny == b0.y + b0.vy * d
           r  == boundsBounce(wallBounce(b0, nx, ny), nx, ny)
           mx == IF r.bounced THEN b0.x + r.b.vx * d ELSE nx
           my == IF r.bounced THEN b0.y + r.b.vy * d ELSE ny
           life == b0.life - d
       IN  [b |-> [r.b EXCEPT !.x = mx, !.y = my, !.life = life,
                              !.alive = stillAlive(life, r.b.bounces, maxBounces)],
            bounced |-> r.bounced]

(* enableBouncingBullets(Bullet, env, maxBounces): lines 47-51. *)
enableBouncingBullets(maxBounces) ==
  /\ patch' = IF patch.on THEN patch ELSE [on |-> TRUE, maxBounces |-> maxBounces]
  /\ UNCHANGED <<bullet, refl>>
  /\ UNCHANGED aiVars
  /\ UNCHANGED extVars

(* increaseBulletSpeed without the `__orig_fire_fastpatch` test of line 15. *)
installFire_Always(fs, factor) == Append(fs, factor)

(* increaseBulletSpeed, lines 15-18: fs is the sequence of the factors of  *)
(* the wrappers now around Tank.prototype.fire, the innermost first.       *)
installFire(fs, factor) == IF fs # <<>> THEN fs ELSE <<factor>>

(* Lines 19-24: each wrapper multiplies the velocity of the bullet the     *)
(* method it wraps returned.                                               *)
RECURSIVE wrappedVelocity(_, _)
wrappedVelocity(v, fs) ==
  IF fs = <<>> THEN v ELSE wrappedVelocity(v * Head(fs), Tail(fs))

(* tank.fire(): the bullet b of the original fire, as the caller gets it. *)
patchedFire(b, fs) ==
  [b EXCEPT !.vx = wrappedVelocity(b.vx, fs), !.vy = wrappedVelocity(b.vy, fs)]

(* increaseBulletSpeed(Tank, factor): lines 13-26. *)
increaseBulletSpeed(factor) ==
  /\ hook.calls < MaxPatchCalls
  /\ hook' = [hook EXCEPT !.fire = installFire(hook.fire, factor),
                          !.calls = hook.calls + 1]
  /\ UNCHANGED <<player, deadly, call, raf>>
  /\ UNCHANGED bulletVars
  /\ UNCHANGED aiVars

(* Tank.fire of main.js puts a new bullet in flight. *)
BulletStarts ==
  [x : {2, 10}, y : {2, 10}, vx : {-7, -3, 0, 3, 7}, vy : {-7, -3, 0, 3, 7},
   life : {MaxLife}, alive : {TRUE}, bounces : {-1}]

FireBullet(b) ==
  /\ patch.on
  /\ ~bullet.alive /\ bullet.life = 0 /\ bullet.bounces = -1
  /\ b.vx # 0 \/ b.vy # 0
  /\ bullet' = patchedFire(b, hook.fire)
  /\ refl' = 0
  /\ call' = [noCall EXCEPT !.method = "fire", !.orig = 1, !.base = <<b.vx, b.vy>>]
  /\ UNCHANGED <<player, deadly, hook, raf>>
  /\ UNCHANGED patch
  /\ UNCHANGED aiVars

(* One frame of the game loop calls bullet.update(dt). *)
UpdateBullet(d) ==
  /\ patch.on
  /\ bullet.bounces >= 0 \/ bullet.alive
  /\ LET r == bulletUpdate(bullet, d, patch.maxBounces)
     IN  /\ bullet' = r.b
         /\ refl' = IF r.bounced THEN refl + 1 ELSE refl
  /\ call' = [noCall EXCEPT !.method = "update"]
  /\ UNCHANGED <<player, deadly, hook, raf>>
  /\ UNCHANGED patch
  /\ UNCHANGED aiVars

Enable == \E m \in 1 .. MaxBouncesArg : enableBouncingBullets(m)
Shoot == \E b \in BulletStarts : FireBullet(b)
Frame == \E d \in {1, 2} : UpdateBullet(d)

NextBullet == Enable \/ Shoot \/ Frame
SpecBullet == Fresh /\ [][NextBullet]_vars

(* The game loop updates a bullet in flight in every frame: weak fairness  *)
(* of Frame, WF_vars(Frame), with ENABLED <<Frame>>_vars written out.  An  *)
(* update changes the state exactly when the patch is installed and the    *)
(* bullet is alive (its life then goes down by dt).                        *)
FrameFair == []<>~(patch.on /\ bullet.alive) \/ []<><<Frame>>_vars
SpecBulletLive == Fresh /\ [][NextBullet]_vars /\ FrameFair

----------------------------------------------------------------------------
(* enableDeadlyWalls: lines 110-137.  Wall indices are 0-based as in the   *)
(* code: index i is maze[i + 1] of the model.                              *)

TankRadius == 2   \* this.radius of a Tank, in position units

(* env.circleRectCollision of main.js: whether the disc of radius r around *)
(* (cx, cy) meets the rectangle.                                           *)
circleRectCollision(cx, cy, r, x, y, w, h) ==
  LET px == clamp(cx, x, x + w)
      py == clamp(cy, y, y + h)
  IN  (cx - px) * (cx - px) + (cy - py) * (cy - py) <= r * r

(* Lines 117-121: the flags after tagging.  given is the index list, or    *)
(* the set of the indices whose wall the predicate accepts.                *)
flagDeadly(flags, given) ==
  flags \cup {i \in 0 .. Len(maze) - 1 : i \in given}

(* Lines 123-126: the wrappers around updateMovement after the call. *)
installMove(n) == IF n > 0 THEN n ELSE 1

overlaps(p, i) ==
  circleRectCollision(p.x, p.y, TankRadius,
                      maze[i + 1].x, maze[i + 1].y, maze[i + 1].w, maze[i + 1].h)

(* deadlyKills without the `break` of line 133. *)
deadlyKills_NoBreak(p, flags) == Cardinality({i \in flags : overlaps(p, i)})

(* Lines 128-135: the onTankKilled calls of one wrapper, the tank at p. *)
deadlyKills(p, flags) == IF \E i \in flags : overlaps(p, i) THEN 1 ELSE 0

(* enableDeadlyWalls(Tank, env, deadly): lines 110-126. *)
enableDeadlyWalls(given) ==
  /\ hook.calls < MaxPatchCalls
  /\ deadly' = flagDeadly(deadly, given)
  /\ hook' = [hook EXCEPT !.move = installMove(hook.move),
                          !.calls = hook.calls + 1]
  /\ call' = [noCall EXCEPT !.method = "enableDeadlyWalls", !.given = given]
  /\ UNCHANGED <<player, raf>>
  /\ UNCHANGED bulletVars
  /\ UNCHANGED aiVars

(* The game loop calls player.updateMovement(...): the original method     *)
(* displaces the tank by mv, then each installed wrapper tests the walls   *)
(* (lines 126-136).                                                        *)
playerMovement(mv) ==
  LET p == updateMovement(player, mv)
  IN  /\ player' = p
      /\ call' = [noCall EXCEPT !.method = "updateMovement", !.orig = 1,
                                !.killed = hook.move * deadlyKills(p, deadly),
                                !.at = <<p.x, p.y>>]
      /\ UNCHANGED <<deadly, hook, raf>>
      /\ UNCHANGED bulletVars
      /\ UNCHANGED aiVars

Moves == {<<1, 0>>, <<-1, 0>>, <<0, 1>>, <<0, -1>>}
Factors == {2, 3}

(* The installers called in any order, any number of times; one slow      *)
(* bullet; the player stepping between two points.                         *)
Speed == \E f \in Factors : increaseBulletSpeed(f)
DeadlyFirst == enableDeadlyWalls({0})
ShootOne ==
  FireBullet([x |-> 2, y |-> 2, vx |-> 1, vy |-> 0, life |-> 3,
              alive |-> TRUE, bounces |-> -1])
Step ==
  \E mv \in Moves :
    /\ player.x + mv[1] \in 10 .. 11 /\ player.y + mv[2] \in 5 .. 6
    /\ playerMovement(mv)

NextPatch == Speed \/ Enable \/ DeadlyFirst \/ ShootOne \/ Frame \/ Step
SpecPatch == Fresh /\ [][NextPatch]_vars

(* Walls flagged by list or predicate, out-of-range indices included; the  *)
(* player driven around the two walls.                                     *)
Deadly == \E given \in SUBSET (-1 .. Len(maze)) : enableDeadlyWalls(given)
Drive ==
  \E mv \in Moves :
    /\ player.x + mv[1] \in 10 .. 13 /\ player.y + mv[2] \in 5 .. 8
    /\ playerMovement(mv)

NextDeadly == Deadly \/ Drive
SpecDeadly == Fresh /\ [][NextDeadly]_vars

----------------------------------------------------------------------------
(* wrapFrameWithSpeed: lines 270-277.  Timestamps are whole milliseconds;  *)
(* the multiplier is counted in halves (m = 3 is 1.5) and the timestamp    *)
(* passed to frameFn in half milliseconds.  last = -1 is `undefined`.      *)

Multipliers == {1, 2, 3, 4}

(* latch with `last` set to the timestamp of every call. *)
latch_Advance(last, t) == t

(* Line 273. *)
latch(last, t) == IF last = -1 THEN t ELSE last

(* Line 274, in half milliseconds. *)
scaledTime(last, t, m) == 2 * last + (t - last) * m

(* wrapFrameWithSpeed(frameFn, multiplier): lines 270-272. *)
wrapFrameWithSpeed(m) ==
  /\ ~raf.on
  /\ raf' = [raf EXCEPT !.on = TRUE, !.m = m]
  /\ UNCHANGED <<player, deadly, hook, call>>
  /\ UNCHANGED bulletVars
  /\ UNCHANGED aiVars

(* wrapped(t): lines 272-276. *)
wrapped(t) ==
  /\ raf.on
  /\ raf.n < MaxFrames
  /\ LET last == latch(raf.last, t)
     IN  raf' = [raf EXCEPT !.last = last, !.n = raf.n + 1, !.ran = 1,
                            !.t = t, !.scaled = scaledTime(last, t, raf.m)]
  /\ UNCHANGED <<player, deadly, hook, call>>
  /\ UNCHANGED bulletVars
  /\ UNCHANGED aiVars

WrapFrame == \E m \in Multipliers : wrapFrameWithSpeed(m)
RunFrame == \E t \in 0 .. MaxTime : wrapped(t)

NextFrame == WrapFrame \/ RunFrame
SpecFrame == Fresh /\ [][NextFrame]_vars

----------------------------------------------------------------------------
(* Properties.  A state with dt > 0 is the state at the end of an          *)
(* updateAllAI(dt) call; state[e].holdFire is then the timer as the fire   *)
(* decision of that call read it (nothing writes it after line 211).       *)

(* C1: fire suppression.  At the end of every tick, a managed tank whose   *)
(* hold-fire timer was > 0 at the fire decision received no fire() call,   *)
(* whatever sight, facing error and canFire() were.                        *)
C1_FireSuppressed ==
  \A e \in Managed :
    (dt > 0 /\ state[e].holdFire > 0) => obs[e].fired = 0

(* A tick in which everything but the timer allowed the shot. *)
C1_Witness ==
  \E e \in Managed :
    /\ dt > 0 /\ state[e].holdFire > 0
    /\ state[e].hasSight /\ obs[e].canFire /\ obs[e].diff = 0
    /\ obs[e].fired = 0

(* C2: fire decision.  In every tick fire() is called exactly once on a    *)
(* managed tank when sight is true, the timer is <= 0, canFire() is true   *)
(* and the facing error is strictly inside (-0.15, 0.15) rad, and not at   *)
(* all when one of the four fails.                                         *)
C2_FireDecision ==
  \A e \in Managed :
    dt > 0 =>
      LET ready == /\ state[e].hasSight
                   /\ ~(state[e].holdFire > 0)
                   /\ obs[e].canFire
                   /\ obs[e].diff * obs[e].diff < 15 * 15
      IN  /\ ready => obs[e].fired = 1
          /\ ~ready => obs[e].fired = 0

C2_Witness ==
  \E e \in Managed :
    /\ dt > 0 /\ obs[e].fired = 1 /\ obs[e].diff = 14 /\ state[e].holdFire < 0

(* C3: hold-fire edge trigger.  In a tick the timer is reset exactly when  *)
(* hasLineOfSight is true and the stored hasSight (false for a tank not    *)
(* yet seen) is false, to a value in [0.9, 1.6) s, from which the tick's   *)
(* own dt is then taken; in every other tick it is not increased: it       *)
(* loses dt if it was positive and keeps its value otherwise.              *)
C3_EdgeTrigger ==
  [][ dt' > 0 =>
        \A e \in Managed :
          LET old == getState(e)
              new == state'[e]
          IN  IF new.hasSight /\ ~old.hasSight
                THEN new.holdFire + dt' >= 9 /\ new.holdFire + dt' < 16
                ELSE /\ new.holdFire <= old.holdFire
                     /\ old.holdFire > 0 => new.holdFire = old.holdFire - dt'
                     /\ old.holdFire <= 0 => new.holdFire = old.holdFire ]_vars

(* The tick of a reset to the top of the range: 1.5 s, less the dt. *)
C3_Witness ==
  \E e \in Managed :
    dt > 0 /\ state[e].hasSight /\ state[e].holdFire + dt = 15
(* obs[e].started: this tick's stuck detector took st.progress above 0.6 s *)
(* (line 235), the first tick to do so since the timer last was 0.         *)

(* C4, as claimed: for every dt, at the end of the tick in which the       *)
(* accumulated progress exceeds 0.6 s the stuck timer is > 0 and the       *)
(* progress timer is 0.                                                    *)
C4_ActiveAtTrigger ==
  \A e \in Managed :
    (dt > 0 /\ obs[e].started) =>
      state[e].unstick > 0 /\ state[e].progress = 0

(* C4, amended: at the end of that tick the progress timer is 0, a turn    *)
(* direction is chosen and the stuck timer is 0.5 s less the tick's dt: it *)
(* is > 0 exactly when dt < 0.5 s.                                         *)
C4_StuckRecovery ==
  \A e \in Managed :
    (dt > 0 /\ obs[e].started) =>
      /\ state[e].progress = 0
      /\ state[e].unstick = 5 - dt
      /\ state[e].unstickDir # 0
      /\ state[e].unstick > 0 <=> dt < 5

C4_Witness ==
  \E e \in Managed :
    dt = 1 /\ obs[e].started /\ state[e].unstick > 0 /\ state[e].progress = 0

(* C5: progress measures the displacement updateMovement produces, so a    *)
(* tank that every updateMovement call so far has displaced by at least    *)
(* 8*dt px does not start an unstick maneuver, and none is running.        *)
C5_ProgressMeasuresMovement ==
  \A e \in Managed :
    (dt > 0 /\ moving[e]) => ~obs[e].started /\ state[e].unstickDir = 0

(* C6, as claimed: after every tick the three timers are >= 0. *)
C6_TimersNonNegative ==
  \A e \in DOMAIN state :
    state[e].holdFire >= 0 /\ state[e].unstick >= 0 /\ state[e].progress >= 0

(* C6, amended: after every tick the progress timer is >= 0; the hold-fire *)
(* and the stuck timer either end the tick above -dt, or were <= 0 before  *)
(* it and are left as they were (a timer at or below 0 is not decremented  *)
(* again).                                                                 *)
C6_TimersUndershoot ==
  [][ dt' > 0 =>
        \A e \in Managed :
          LET old == getState(e)
              new == state'[e]
          IN  /\ new.progress >= 0
              /\ \/ new.holdFire > -dt'
                 \/ old.holdFire <= 0 /\ new.holdFire = old.holdFire
              /\ \/ new.unstick > -dt'
                 \/ old.unstick <= 0 /\ new.unstick = old.unstick ]_vars

(* Both countdown timers have gone below zero. *)
C6_Witness ==
  \E e \in Managed \cap DOMAIN state :
    state[e].holdFire < 0 /\ state[e].unstick < 0 /\ state[e].progress >= 0

(* C7: no tank ever has stuck timer > 0 and progress timer > 0 together,   *)
(* and a tick that finds the stuck timer > 0 starts no maneuver.           *)
C7_StuckProgressExclusive ==
  [][ \A e \in DOMAIN state' :
        /\ ~(state'[e].unstick > 0 /\ state'[e].progress > 0)
        /\ (dt' > 0 /\ e \in Managed /\ getState(e).unstick > 0)
             => ~obs'[e].started ]_vars

(* C8: the controller holds a record only for tanks of the enemies array. *)
C8_NoStateLeak == DOMAIN state \subseteq Managed
(* C9: construction errors.  When TankClass is not invocable, or count is  *)
(* not positive, or canOccupy rejects every spawn point, the call reports  *)
(* a failure and no tank is created.                                       *)
C9_ConstructionErrors ==
  ctl.phase # "fresh" =>
    LET invalid == \/ ~ctl.invocable
                   \/ ctl.count < 1
                   \/ ctl.hasPred /\ ctl.occ = {}
    IN  invalid => ctl.phase = "threw" /\ tank = <<>>
(* C10: bounce limit.  A bullet in flight has reflected, off walls and     *)
(* arena bounds together, fewer than maxBounces times: the update of its   *)
(* maxBounces-th reflection leaves it not alive.                           *)
C10_BounceLimit ==
  (patch.on /\ bullet.alive) => refl < patch.maxBounces

(* C11, as claimed: idempotent patching.  Each of the three methods has at *)
(* most one wrapper, a later installer call leaves an installed wrapper as *)
(* it is, every call of a patched method runs the original method exactly  *)
(* once, and a fired bullet has the original velocity times the factor.    *)
C11_OriginalRunsOnce ==
  [][ /\ Len(hook'.fire) <= 1 /\ hook'.move <= 1
      /\ hook.fire # <<>> => hook'.fire = hook.fire
      /\ hook.move > 0 => hook'.move = hook.move
      /\ patch.on => patch' = patch
      /\ (bullet'.alive /\ ~bullet.alive) =>
            /\ call'.method = "fire" /\ call'.orig = 1
            /\ hook.fire # <<>> =>
                  /\ bullet'.vx = call'.base[1] * hook.fire[1]
                  /\ bullet'.vy = call'.base[2] * hook.fire[1]
      /\ call'.method = "updateMovement" => call'.orig = 1
      /\ call'.method = "update" => call'.orig = 1 ]_vars

(* C11, amended: the same, except that the patched Bullet.update replaces  *)
(* the original method and never runs it.                                  *)
C11_InstalledOnce ==
  [][ /\ Len(hook'.fire) <= 1 /\ hook'.move <= 1
      /\ hook.fire # <<>> => hook'.fire = hook.fire
      /\ hook.move > 0 => hook'.move = hook.move
      /\ patch.on => patch' = patch
      /\ (bullet'.alive /\ ~bullet.alive) =>
            /\ call'.method = "fire" /\ call'.orig = 1
            /\ hook.fire # <<>> =>
                  /\ bullet'.vx = call'.base[1] * hook.fire[1]
                  /\ bullet'.vy = call'.base[2] * hook.fire[1]
      /\ call'.method = "updateMovement" => call'.orig = 1
      /\ call'.method = "update" => call'.orig = 0 ]_vars

(* increaseBulletSpeed called with 3 and then with 2, the other two        *)
(* installers called as well, and the bullet fired at three times its      *)
(* original velocity has been updated once.                                *)
C11_Witness ==
  /\ hook.fire = <<3>> /\ hook.calls = 3 /\ hook.move = 1 /\ patch.on
  /\ call.method = "update" /\ bullet.alive /\ bullet.vx = 3 /\ bullet.x = 5

(* C12: deadly walls.  An enableDeadlyWalls call flags exactly the walls   *)
(* whose index is in the list (or accepted by the predicate) and clears    *)
(* no flag; every other step leaves the flags alone.  Once the patch is    *)
(* installed, a call of updateMovement runs the original movement once and *)
(* then calls onTankKilled once if the tank, where the movement has put    *)
(* it, overlaps a wall flagged deadly, and not at all if it overlaps none. *)
C12_DeadlyWalls ==
  [][ /\ deadly \subseteq deadly'
      /\ IF hook'.calls # hook.calls /\ call'.method = "enableDeadlyWalls"
            THEN \A i \in 0 .. Len(maze) - 1 :
                   i \in deadly' <=> (i \in deadly \/ i \in call'.given)
            ELSE deadly' = deadly
      /\ (hook.move > 0 /\ call'.method = "updateMovement") =>
            /\ call'.orig = 1
            /\ call'.at = <<player'.x, player'.y>>
            /\ (\E i \in deadly' : overlaps(player', i)) => call'.killed = 1
            /\ ~(\E i \in deadly' : overlaps(player', i)) => call'.killed = 0 ]_vars

(* The tank has moved to where it overlaps both walls, both deadly: one    *)
(* onTankKilled call.                                                      *)
C12_Witness ==
  /\ hook.move = 1 /\ deadly = {0, 1} /\ call.method = "updateMovement"
  /\ overlaps(player, 0) /\ overlaps(player, 1) /\ call.killed = 1

(* C13: steering target selection.  In every tick with sight the tank      *)
(* steers at the bearing to the player and neither ensureNav nor           *)
(* navWaypoint is called; in every tick without sight each is called once, *)
(* and the tank steers at the bearing to the waypoint if navWaypoint       *)
(* returned one, at the bearing to the player if it returned null.         *)
C13_SteeringTarget ==
  \A e \in Managed :
    dt > 0 =>
      IF state[e].hasSight
        THEN /\ obs[e].nav = 0 /\ obs[e].asked = 0
             /\ obs[e].target = "player" /\ obs[e].turn = obs[e].diff
        ELSE /\ obs[e].nav = 1 /\ obs[e].asked = 1
             /\ obs[e].wp => (obs[e].target = "waypoint" /\ obs[e].turn = obs[e].wpDiff)
             /\ ~obs[e].wp => (obs[e].target = "player" /\ obs[e].turn = obs[e].diff)

(* No sight, the waypoint 1 rad to the left, the player 1.2 rad to the     *)
(* right: the tank steers at the waypoint.                                 *)
C13_Witness ==
  \E e \in Managed :
    /\ dt > 0 /\ ~state[e].hasSight /\ obs[e].wp
    /\ obs[e].diff = 120 /\ obs[e].turn = -100 /\ obs[e].base = -160

(* C14: unstick direction.  The direction is always -1, 0 or +1 and is not *)
(* 0 while the stuck timer is > 0; at the end of a tick that started a     *)
(* maneuver it is +1 if the left feeler was shorter than the right one in  *)
(* that tick, and -1 if it was longer or equal.                            *)
C14_UnstickDirection ==
  /\ \A e \in DOMAIN state :
       /\ state[e].unstickDir \in {-1, 0, 1}
       /\ state[e].unstick > 0 => state[e].unstickDir # 0
  /\ \A e \in Managed :
       (dt > 0 /\ obs[e].started) =>
         state[e].unstickDir = IF obs[e].leftLess THEN 1 ELSE -1

(* A maneuver started with equal clearances: direction -1. *)
C14_Witness ==
  \E e \in Managed :
    /\ dt > 0 /\ obs[e].started /\ obs[e].avoid = 0 /\ ~obs[e].leftLess
    /\ state[e].unstickDir = -1 /\ state[e].unstick > 0

(* C15: agent isolation.  One updateAllAI(dt) call leaves the player as it *)
(* is; a tank that is not in the enemies array receives no updateMovement  *)
(* and no fire call and keeps its position and its record (or its lack of  *)
(* one); a tank of the array ends the call as its own updateOne leaves it, *)
(* computed from its own record and position alone.                        *)
C15_AgentIsolation ==
  [][ dt' > 0 =>
        /\ player' = player
        /\ \A e \in DOMAIN tank \ Range(enemies) :
             /\ tank'[e] = tank[e]
             /\ obs'[e].moves = 0 /\ obs'[e].fired = 0
             /\ e \in DOMAIN state' <=> e \in DOMAIN state
             /\ e \in DOMAIN state => state'[e] = state[e]
        /\ \A e \in Range(enemies) :
             \E in \in PairInputs :
               LET own == IF e \in DOMAIN state THEN state[e] ELSE newState(tank[e])
                   r == updateOne(own, tank[e], dt', in)
               IN  state'[e] = r.st /\ tank'[e] = r.tank /\ obs'[e] = r.obs ]_vars

(* A tick with one tank in the array, moved and fired on, and the other    *)
(* tank, removed after it had been ticked, left with its record.           *)
C15_Witness ==
  /\ dt > 0 /\ Len(enemies) = 1
  /\ \E e \in DOMAIN state \ Managed :
       obs[e].moves = 0 /\ state[e].hasSight /\ state[e].lastX = tank[e].x
  /\ \E f \in Managed :
       obs[f].moves = 1 /\ obs[f].fired = 1 /\ tank[f].x # spawns[tank[f].spawn + 1].x

(* C16: steering bounds.  In every tick, with angles in units of 0.005 rad *)
(* (160 = 0.8 rad): the base term is within [-0.8, 0.8] and is exactly     *)
(* 0.8 or -0.8, with the sign of the difference, when the difference has   *)
(* magnitude >= 0.8, the differences pi and -pi included; the avoidance    *)
(* term is within [-0.7, 0.7]; the panic term is +0.7 or -0.7 by the side  *)
(* feelers when the forward feeler is < 40 px, and 0 otherwise; steer is   *)
(* the sum of the three, within [-2.2, 2.2]; the steering call never       *)
(* turns left and right at once.                                           *)
C16_SteeringBounds ==
  \A e \in Managed :
    dt > 0 =>
      LET o == obs[e]
      IN  /\ o.base >= -160 /\ o.base <= 160
          /\ o.turn >= 80 => o.base = 160
          /\ o.turn <= -80 => o.base = -160
          /\ (o.turn > -80 /\ o.turn < 80) => o.base = 2 * o.turn
          /\ o.avoid >= -140 /\ o.avoid <= 140
          /\ o.panic = IF o.fwdFeel < 40
                         THEN IF o.leftLess THEN 140 ELSE -140
                         ELSE 0
          /\ o.steer = o.base + o.avoid + o.panic
          /\ o.steer >= -440 /\ o.steer <= 440
          /\ ~(o.steer < -12 /\ o.steer > 12)
          /\ ~o.mv.maneuver => ~(o.mv.left /\ o.mv.right)

(* The player directly behind (difference pi), the left side blocked, the  *)
(* way ahead short: the three terms add up to 2.2 rad.                     *)
C16_Witness ==
  \E e \in Managed :
    /\ dt > 0 /\ obs[e].turn = 314 /\ obs[e].base = 160
    /\ obs[e].avoid = 140 /\ obs[e].panic = 140 /\ obs[e].steer = 440
    /\ obs[e].mv.right /\ ~obs[e].mv.left

(* C18: maneuver override.  In every tick each managed tank receives one   *)
(* updateMovement call.  If the stuck timer is > 0 after the stuck         *)
(* detection of the tick (0.5 s when the tick started a maneuver, its old  *)
(* value otherwise), the tick takes dt off it and the call is              *)
(* (unstickDir < 0, unstickDir > 0, fwdFeel > 30, fwdFeel <= 20), whatever *)
(* the steering flags; otherwise the timer keeps its value and the call is *)
(* (turnLeft, turnRight, fwdFeel > 24, false).  Neither form goes forward  *)
(* and backward at once.                                                   *)
C18_ManeuverOverride ==
  [][ dt' > 0 =>
        \A e \in Managed :
          LET old == getState(e)
              new == state'[e]
              o == obs'[e]
              u == IF o.started THEN 5 ELSE old.unstick
          IN  /\ o.moves = 1
              /\ IF u > 0
                   THEN /\ new.unstick = u - dt'
                        /\ o.mv.maneuver
                        /\ o.mv.left <=> new.unstickDir < 0
                        /\ o.mv.right <=> new.unstickDir > 0
                        /\ o.mv.fwd <=> o.fwdFeel > 30
                        /\ o.mv.back <=> o.fwdFeel <= 20
                   ELSE /\ new.unstick = old.unstick
                        /\ ~o.mv.maneuver
                        /\ o.mv.left <=> o.steer < -12
                        /\ o.mv.right <=> o.steer > 12
                        /\ o.mv.fwd <=> o.fwdFeel > 24
                        /\ ~o.mv.back
              /\ ~(o.mv.fwd /\ o.mv.back) ]_vars

(* During a maneuver to the right the steering asks for a left turn and    *)
(* the wall is 20 px ahead: the call turns right and backs up.             *)
C18_Witness ==
  \E e \in Managed :
    /\ dt > 0 /\ obs[e].mv.maneuver /\ ~obs[e].started
    /\ obs[e].steer < -12 /\ obs[e].fwdFeel = 20
    /\ obs[e].mv.right /\ ~obs[e].mv.left /\ obs[e].mv.back /\ ~obs[e].mv.fwd

(* C17: scaled frame time.  Every call of the wrapped function calls       *)
(* frameFn once; the first call passes its timestamp unchanged; from one   *)
(* call to the next the timestamp passed to frameFn changes by the         *)
(* multiplier times the change of the timestamp received (so, adding up,   *)
(* for any two calls).  raf.scaled is in half milliseconds, raf.m in       *)
(* halves.                                                                 *)
C17_ScaledFrameTime ==
  [][ raf'.n = raf.n + 1 =>
        /\ raf'.ran = 1
        /\ raf.n = 0 => raf'.scaled = 2 * raf'.t
        /\ raf.n > 0 => raf'.scaled - raf.scaled = raf.m * (raf'.t - raf.t) ]_vars

(* Multiplier 1.5, calls at 1 ms, 4 ms and 2 ms: frameFn got 1, 5.5, 2.5. *)
C17_Witness ==
  raf.m = 3 /\ raf.n = 3 /\ raf.last = 1 /\ raf.t = 2 /\ raf.scaled = 5

(* C19: bullet termination.  With the bouncing patch installed and the     *)
(* bullet updated in every frame, dt at least 0.1 s, a bullet in flight    *)
(* eventually is not alive, whatever it bounces off; from then on every    *)
(* update leaves its position, velocity, life and bounce counter as they   *)
(* are and it stays not alive.                                             *)
C19_BulletTermination ==
  /\ bullet.alive ~> ~bullet.alive
  /\ [][ (~bullet.alive /\ bullet.bounces >= 0) => bullet' = bullet ]_vars

(* A bullet that has reflected off the arena bounds four times, more than  *)
(* any maxBounces, and has died only of its life running out.              *)
C19_Witness ==
  /\ patch.on /\ ~bullet.alive /\ bullet.life <= 0
  /\ bullet.bounces = 0 /\ refl >= 4 /\ call.method = "update"

(* C20: spawn selection.  For a constructible TankClass and count >= 0 the *)
(* call returns, with exactly count enemies, each on one of the 8 spawn    *)
(* points; if canOccupy accepts at least one of the 8 points, each is on a *)
(* point it accepts; without canOccupy, enemy i is on spawn point i mod 8; *)
(* enemy i has colour i mod (number of colours).                           *)
C20_SpawnSelection ==
  (ctl.phase # "fresh" /\ ctl.invocable /\ ctl.count >= 0) =>
    /\ ctl.phase = "ready"
    /\ Len(enemies) = ctl.count /\ DOMAIN tank = 1 .. ctl.count
    /\ \A i \in 1 .. ctl.count :
         /\ enemies[i] = i
         /\ tank[i].spawn \in 0 .. 7
         /\ tank[i].x = spawns[tank[i].spawn + 1].x
         /\ tank[i].y = spawns[tank[i].spawn + 1].y
         /\ (ctl.hasPred /\ ctl.occ # {}) => tank[i].spawn \in ctl.occ
         /\ ~ctl.hasPred => tank[i].spawn = (i - 1) % 8
         /\ tank[i].color = (i - 1) % ctl.nc

(* canOccupy accepts only the last point of the table: three enemies, all  *)
(* placed on it, the second and third after the table index wrapped.       *)
C20_Witness ==
  /\ ctl.phase = "ready" /\ ctl.hasPred /\ ctl.occ = {7} /\ ctl.count = 3
  /\ \A i \in 1 .. 3 : tank[i].spawn = 7 /\ tank[i].x = 3 /\ tank[i].y = 10
====
